---------------------------- MODULE Spec2Model ----------------------------
(***************************************************************************)
(* HA Entity Explorer, modelled as state machines:                         *)
(*   LoginGuard        login(), ban_ip(), load_banned_ips() of server.py,  *)
(*                     sequential and run by worker threads;               *)
(*   RemoteStateCache  HomeAssistantAPI.get_states of ha_api.py,           *)
(*                     sequential and run by worker threads;               *)
(*   AccessPolicy      Config.is_entity_allowed of config.py;              *)
(*   HistoryFetcher    HomeAssistantAPI.get_history;                       *)
(*   RangeDiscovery    HomeAssistantAPI.get_available_history_range;       *)
(*   the per-entity endpoints of server.py up to their remote call;        *)
(*   SeriesTransformer process_climate_history, process_generic_history    *)
(*                     and the loop of get_attribute_history.              *)
(***************************************************************************)
EXTENDS Integers, Sequences, FiniteSets, TLC

(***************************************************************************)
(* Bounds of the model.                                                    *)
(***************************************************************************)
\* largest value a login_attempts counter is driven to
MaxCount == 6

\* latest reading of the clock, in seconds
MaxTime == 80

\* number of login requests the worker threads serve
MaxRequests == 4

\* number of remote fetches the worker threads start in get_states
MaxRefreshes == 3

\* longest whitelist and longest blacklist
MaxPatterns == 2

\* longest history given to the transformations
MaxEntries == 3

\* entity states in a snapshot of GET /api/states
MaxEntities == 3

(***************************************************************************)
(* Program constants.                                                      *)
(***************************************************************************)
MAX_LOGIN_ATTEMPTS == 5

\* self._cache_ttl, in seconds
cache_ttl == 60

\* config.safe_ips: load_config always adds the two loopback addresses
safe_ips == {"127.0.0.1", "::1"}

\* users.yaml as load_users() returns it: username -> password
users == [u \in {"admin"} |-> "s3cret"]

(***************************************************************************)
(* Inputs.                                                                 *)
(***************************************************************************)
\* request.remote_addr
Addrs == {"1.2.3.4", "5.6.7.8", "127.0.0.1"}

Methods == {"GET", "POST"}

\* request.form: <<username, password>>
Forms == {<<"admin", "s3cret">>, <<"admin", "guess">>, <<"eve", "s3cret">>}

\* how a read of ip_bans.yaml ends
ReadResults == {"ok", "error"}

\* how the rewrite of ip_bans.yaml ends: done, open() raised (file as it
\* was), or yaml.dump raised after open() truncated the file
WriteResults == {"ok", "open_error", "dump_error"}

\* seconds by which the clock is seen to advance between two operations
TickSteps == {19, 20}

\* the same seen by threads that run for longer
SlowTickSteps == {30}

\* seconds a remote request takes (requests' timeout is 30)
RequestDurations == {0, 19}

\* bodies of GET /api/states: the list of entity states, by entity_id
Snapshots == {<<>>, <<"sensor.a">>, <<"sensor.a", "climate.b">>}

\* how requests.request() ends in _request
RemoteOutcomes ==
    {"ok", "401", "404", "http_error", "bad_json", "connection", "timeout"}

\* worker threads of the server (app.run serves each request in a thread)
Workers == {"w1", "w2"}

\* get_states(force_refresh=...)
ForceRefresh == BOOLEAN

(***************************************************************************)
(* Python dict and list helpers.                                           *)
(***************************************************************************)
EmptyDict == [k \in {} |-> 0]

DictGet(d, k, default) == IF k \in DOMAIN d THEN d[k] ELSE default

DictSet(d, k, v) == [x \in (DOMAIN d) \cup {k} |-> IF x = k THEN v ELSE d[x]]

DictDel(d, k) == [x \in (DOMAIN d) \ {k} |-> d[x]]

Elems(s) == {s[i] : i \in 1..Len(s)}

(***************************************************************************)
(* State.                                                                  *)
(***************************************************************************)
VARIABLES
    login_attempts,   \* dict {ip: count}, process memory
    ip_bans_yaml,     \* the file ip_bans.yaml: [kind, banned_ips]
    resp,             \* the answer to the last login request
    fail_streak,      \* per address: credential failures answered since
                      \* the later of process start and its last success
    at_restart        \* the addresses that had 1 to 4 failures counted
                      \* when the process was last restarted

guard_vars == <<login_attempts, ip_bans_yaml, resp, fail_streak, at_restart>>

VARIABLES
    now,                \* datetime.now(), seconds
    states_cache,       \* self._states_cache: <<>> (None) or <<snapshot>>
    states_cache_time,  \* self._states_cache_time: <<>> (None) or <<time>>
    remote_states,      \* what Home Assistant answers to GET /api/states
    ret                 \* how the last get_states call ended

cache_vars == <<now, states_cache, states_cache_time, remote_states, ret>>

VARIABLES
    threads,            \* per worker thread: where it is in login() and its locals
    ban_written,        \* addresses whose rewrite of ip_bans.yaml by ban_ip completed
    served              \* number of login requests the threads have taken up

thread_vars == <<threads, ban_written, served>>

VARIABLES
    gs,                 \* per worker thread: where it is in get_states and its locals
    entry_by,           \* which refresh wrote _states_cache and which wrote
                        \* _states_cache_time: [cache, time], 0 for __init__
    refreshes           \* number of remote fetches the threads have started

gs_vars == <<gs, entry_by, refreshes>>

VARIABLES
    policy,             \* config: [whitelist, blacklist], lists of glob patterns
    call                \* the last operation run to its end: its name, its
                        \* arguments, the remote requests it issued, its outcome

more_vars == <<gs_vars, policy, call>>

vars == <<guard_vars, cache_vars, thread_vars, more_vars>>

NoFile == [kind |-> "missing", banned_ips |-> <<>>]

TruncatedFile == [kind |-> "empty", banned_ips |-> <<>>]

BanFile(bans) == [kind |-> "list", banned_ips |-> bans]

\* the addresses recorded in the persisted ban store
BanStore == Elems(ip_bans_yaml.banned_ips)

(***************************************************************************)
(* load_banned_ips(): the list under banned_ips; [] when the file is       *)
(* missing, empty, or reading it raises.                                   *)
(***************************************************************************)
load_banned_ips(file, rd) ==
    IF rd # "ok" THEN <<>>
    ELSE IF file.kind = "missing" THEN <<>>
    ELSE IF file.kind = "empty" THEN <<>>
    ELSE file.banned_ips

\* ban_ip without the safe-address test
ban_ip_NoSafeTest(ip, file, rd, wr) ==
    LET bans == load_banned_ips(file, rd) IN
    IF ip \in Elems(bans) THEN file
    ELSE IF wr = "ok" THEN BanFile(Append(bans, ip))
    ELSE IF wr = "open_error" THEN file
    ELSE TruncatedFile

(***************************************************************************)
(* ban_ip(ip): the file after the call.                                    *)
(***************************************************************************)
ban_ip(ip, file, rd, wr) ==
    IF ip \in safe_ips THEN file
    ELSE LET bans == load_banned_ips(file, rd) IN
         IF ip \in Elems(bans) THEN file
         ELSE IF wr = "ok" THEN BanFile(Append(bans, ip))
         ELSE IF wr = "open_error" THEN file
         ELSE TruncatedFile

\* username in users and users[username] == password
CredentialsOk(form) == form[1] \in DOMAIN users /\ users[form[1]] = form[2]

\* the ban check with the safe-address test inverted
IsBanned_SafeInverted(ip, file, rd) ==
    ip \in safe_ips /\ ip \in Elems(load_banned_ips(file, rd))

\* the ban check at the head of login()
IsBanned(ip, file, rd) ==
    ip \notin safe_ips /\ ip \in Elems(load_banned_ips(file, rd))

\* a success that leaves the counter in place
ResetAttempts_Kept(d, ip) == d

\* success: if client_ip in login_attempts: del login_attempts[client_ip]
ResetAttempts(d, ip) == IF ip \in DOMAIN d THEN DictDel(d, ip) ELSE d

\* failure: attempts = login_attempts.get(client_ip, 0) + 1
NextAttempts(d, ip) == DictGet(d, ip, 0) + 1

\* the threshold test with > for >=
ThresholdReached_Strict(attempts) == attempts > MAX_LOGIN_ATTEMPTS

\* if attempts >= MAX_LOGIN_ATTEMPTS
ThresholdReached(attempts) == attempts >= MAX_LOGIN_ATTEMPTS

\* login_attempts = {} at module load
InitialAttempts == EmptyDict

\* the answer to a login request.  session_user is what the answer stores
\* as session['user'] in the client's signed cookie (<<>>: nothing);
\* creds_read tells whether request.form was read; prior is the value of
\* fail_streak[ip] when the request arrived
Response(ip, method, status, user, creds, prior) ==
    [ip |-> ip, method |-> method, status |-> status, session_user |-> user,
     creds_read |-> creds, prior |-> prior]

(***************************************************************************)
(* login(): one request, run to completion.  RR holds the ways the reads   *)
(* of ip_bans.yaml may end (at the ban check and in ban_ip), WR the ways   *)
(* the rewrite in ban_ip may end.                                          *)
(***************************************************************************)
LoginIO(ip, method, form, RR, WR) ==
    \E rd1 \in RR :
    IF IsBanned(ip, ip_bans_yaml, rd1)
    THEN \* abort(403) before request.form is read
         /\ resp' = Response(ip, method, "banned", <<>>, FALSE, fail_streak[ip])
         /\ UNCHANGED <<login_attempts, ip_bans_yaml, fail_streak>>
    ELSE IF method = "POST"
    THEN IF CredentialsOk(form)
         THEN /\ login_attempts' = ResetAttempts(login_attempts, ip)
              /\ resp' = Response(ip, method, "redirect", <<form[1]>>, TRUE, fail_streak[ip])
              /\ fail_streak' = [fail_streak EXCEPT ![ip] = 0]
              /\ UNCHANGED ip_bans_yaml
         ELSE LET attempts == NextAttempts(login_attempts, ip) IN
              /\ attempts <= MaxCount
              /\ login_attempts' = DictSet(login_attempts, ip, attempts)
              /\ fail_streak' = [fail_streak EXCEPT ![ip] = @ + 1]
              /\ IF ThresholdReached(attempts)
                 THEN /\ \E rd2 \in RR, wr \in WR :
                            ip_bans_yaml' = ban_ip(ip, ip_bans_yaml, rd2, wr)
                      /\ resp' = Response(ip, method, "too_many", <<>>, TRUE, fail_streak[ip])
                 ELSE /\ resp' = Response(ip, method, "invalid", <<>>, TRUE, fail_streak[ip])
                      /\ UNCHANGED ip_bans_yaml
    ELSE /\ resp' = Response(ip, method, "form", <<>>, FALSE, fail_streak[ip])
         /\ UNCHANGED <<login_attempts, ip_bans_yaml, fail_streak>>

\* login() with every file operation succeeding
Login(ip, method, form) ==
    /\ LoginIO(ip, method, form, {"ok"}, {"ok"})
    /\ UNCHANGED <<at_restart, cache_vars, thread_vars, more_vars>>

\* login() with file operations that may raise
LoginFaulty(ip, method, form) ==
    /\ LoginIO(ip, method, form, ReadResults, WriteResults)
    /\ UNCHANGED <<at_restart, cache_vars, thread_vars, more_vars>>

\* a restart that carries the counters over
Restart_CountersKept ==
    /\ fail_streak' = [ip \in Addrs |-> 0]
    /\ at_restart' = {ip \in Addrs : fail_streak[ip] \in 1..(MAX_LOGIN_ATTEMPTS - 1)}
    /\ UNCHANGED <<login_attempts, ip_bans_yaml, resp, cache_vars, thread_vars, more_vars>>

\* the process is started again: module-level login_attempts = {} is
\* re-evaluated, ip_bans.yaml stays on disk
Restart ==
    /\ login_attempts' = InitialAttempts
    /\ fail_streak' = [ip \in Addrs |-> 0]
    /\ at_restart' = {ip \in Addrs : fail_streak[ip] \in 1..(MAX_LOGIN_ATTEMPTS - 1)}
    /\ UNCHANGED <<ip_bans_yaml, resp, cache_vars, thread_vars, more_vars>>

GuardInit ==
    /\ login_attempts = InitialAttempts
    /\ ip_bans_yaml = NoFile
    /\ resp = Response("", "", "none", <<>>, FALSE, 0)
    /\ fail_streak = [ip \in Addrs |-> 0]
    /\ at_restart = {}

(***************************************************************************)
(* RemoteStateCache: HomeAssistantAPI.get_states.                          *)
(***************************************************************************)
None == <<>>

Some(x) == <<x>>

\* HomeAssistantAPIError(message, status_code) by the way the request ended
ApiError(outcome) ==
    IF outcome = "401" THEN [error |-> "HomeAssistantAPIError", status_code |-> 401]
    ELSE IF outcome = "404" THEN [error |-> "HomeAssistantAPIError", status_code |-> 404]
    ELSE [error |-> "HomeAssistantAPIError", status_code |-> 0]

NoError == [error |-> "", status_code |-> 0]

\* _request(): the parsed body, or the exception raised
Request(outcome, body) ==
    IF outcome = "ok"
    THEN [kind |-> "return", value |-> body, exc |-> NoError]
    ELSE [kind |-> "raise", value |-> <<>>, exc |-> ApiError(outcome)]

\* the validity test with > for <
CacheValid_Inverted(force_refresh, cache, cache_time, t) ==
    /\ ~force_refresh
    /\ cache # None
    /\ cache_time # None
    /\ t - cache_time[1] > cache_ttl

\* the validity test with <= for <
CacheValid_Inclusive(force_refresh, cache, cache_time, t) ==
    /\ ~force_refresh
    /\ cache # None
    /\ cache_time # None
    /\ t - cache_time[1] <= cache_ttl

\* the validity test of get_states: no force_refresh, an entry, and
\* (now - self._states_cache_time).total_seconds() < self._cache_ttl
CacheValid(force_refresh, cache, cache_time, t) ==
    /\ ~force_refresh
    /\ cache # None
    /\ cache_time # None
    /\ t - cache_time[1] < cache_ttl

\* how a get_states call ended.  requests counts the remote requests it
\* issued; force and prev_time are the call's argument and the value of
\* _states_cache_time when it started
Return(kind, value, exc, requests, force, prev_time) ==
    [kind |-> kind, value |-> value, exc |-> exc, requests |-> requests,
     force |-> force, prev_time |-> prev_time]

\* an update that stamps the entry before the request is known to succeed
UpdatedCache_StampFirst(r, cache, cache_time, t) ==
    IF r.kind = "return" THEN <<Some(r.value), Some(t)>> ELSE <<cache, Some(t)>>

\* states = self._request(...); self._states_cache = states;
\* self._states_cache_time = now: the entry after the fetch, which is
\* not reached when _request raises
UpdatedCache(r, cache, cache_time, t) ==
    IF r.kind = "return" THEN <<Some(r.value), Some(t)>> ELSE <<cache, cache_time>>

GetStates(force_refresh, outcome, duration) ==
    LET t == now IN
    IF CacheValid(force_refresh, states_cache, states_cache_time, t)
    THEN /\ ret' = Return("return", states_cache[1], NoError, 0,
                          force_refresh, states_cache_time)
         /\ UNCHANGED <<now, states_cache, states_cache_time, remote_states>>
         /\ UNCHANGED <<guard_vars, thread_vars, more_vars>>
    ELSE LET r == Request(outcome, remote_states)
             entry == UpdatedCache(r, states_cache, states_cache_time, t)
         IN
         /\ now + duration <= MaxTime
         /\ now' = now + duration
         /\ states_cache' = entry[1]
         /\ states_cache_time' = entry[2]
         /\ ret' = Return(r.kind, r.value, r.exc, 1, force_refresh, states_cache_time)
         /\ UNCHANGED remote_states
         /\ UNCHANGED <<guard_vars, thread_vars, more_vars>>

\* the clock advances
Tick(step) ==
    /\ now + step <= MaxTime
    /\ now' = now + step
    /\ UNCHANGED <<states_cache, states_cache_time, remote_states, ret>>
    /\ UNCHANGED <<guard_vars, thread_vars, more_vars>>

\* the entities of Home Assistant change
RemoteChange(snapshot) ==
    /\ snapshot # remote_states
    /\ remote_states' = snapshot
    /\ UNCHANGED <<now, states_cache, states_cache_time, ret>>
    /\ UNCHANGED <<guard_vars, thread_vars, more_vars>>

CacheInit ==
    /\ now = 0
    /\ states_cache = None
    /\ states_cache_time = None
    /\ remote_states = <<"sensor.a">>
    /\ ret = Return("none", <<>>, NoError, 0, FALSE, None)

(***************************************************************************)
(* login() run by worker threads: one action per access to login_attempts  *)
(* or ip_bans.yaml, the statements between two accesses running with the   *)
(* access before them.  No lock is taken anywhere in login() or ban_ip().  *)
(***************************************************************************)
Idle == [pc |-> "idle", ip |-> "", user |-> <<>>, attempts |-> 0, bans |-> <<>>]

\* the request ends: the answer is sent and the thread is free again
Finish(w, status, user) ==
    LET ip == threads[w].ip IN
    /\ threads' = [threads EXCEPT ![w] = Idle]
    /\ resp' = Response(ip, "POST", status, user, TRUE, fail_streak[ip])
    /\ fail_streak' =
         [fail_streak EXCEPT ![ip] =
            IF status = "redirect" THEN 0
            ELSE IF status \in {"invalid", "too_many"} THEN @ + 1
            ELSE @]

\* the ban check and, past it, the credential check
Begin(w, ip, method, form) ==
    /\ threads[w].pc = "idle"
    /\ served < MaxRequests
    /\ served' = served + 1
    /\ IF IsBanned(ip, ip_bans_yaml, "ok")
       THEN /\ resp' = Response(ip, method, "banned", <<>>, FALSE, fail_streak[ip])
            /\ UNCHANGED threads
       ELSE IF method = "POST"
       THEN /\ threads' = [threads EXCEPT ![w] =
                   [Idle EXCEPT !.ip = ip,
                                !.pc = IF CredentialsOk(form) THEN "success_test"
                                       ELSE "failure_get",
                                !.user = IF CredentialsOk(form) THEN <<form[1]>>
                                         ELSE <<>>]]
            /\ UNCHANGED resp
       ELSE /\ resp' = Response(ip, method, "form", <<>>, FALSE, fail_streak[ip])
            /\ UNCHANGED threads
    /\ UNCHANGED <<login_attempts, ip_bans_yaml, fail_streak, at_restart, ban_written>>
    /\ UNCHANGED <<cache_vars, more_vars>>

\* if client_ip in login_attempts
SuccessTest(w) ==
    /\ threads[w].pc = "success_test"
    /\ IF threads[w].ip \in DOMAIN login_attempts
       THEN /\ threads' = [threads EXCEPT ![w].pc = "success_del"]
            /\ UNCHANGED <<resp, fail_streak>>
       ELSE Finish(w, "redirect", threads[w].user)
    /\ UNCHANGED <<login_attempts, ip_bans_yaml, at_restart, ban_written, served>>
    /\ UNCHANGED <<cache_vars, more_vars>>

\* del login_attempts[client_ip]: KeyError when another thread deleted the
\* entry since the test, and the request ends as an internal error
SuccessDel(w) ==
    /\ threads[w].pc = "success_del"
    /\ IF threads[w].ip \in DOMAIN login_attempts
       THEN /\ login_attempts' = DictDel(login_attempts, threads[w].ip)
            /\ Finish(w, "redirect", threads[w].user)
       ELSE /\ UNCHANGED login_attempts
            /\ Finish(w, "error", <<>>)
    /\ UNCHANGED <<ip_bans_yaml, at_restart, ban_written, served>>
    /\ UNCHANGED <<cache_vars, more_vars>>

\* attempts = login_attempts.get(client_ip, 0) + 1
FailureGet(w) ==
    /\ threads[w].pc = "failure_get"
    /\ threads' = [threads EXCEPT ![w].pc = "failure_set",
                                  ![w].attempts = NextAttempts(login_attempts, threads[w].ip)]
    /\ UNCHANGED <<login_attempts, ip_bans_yaml, resp, fail_streak, at_restart, ban_written, served>>
    /\ UNCHANGED <<cache_vars, more_vars>>

\* login_attempts[client_ip] = attempts, the threshold test, and the
\* safe-address test of ban_ip
FailureSet(w) ==
    /\ threads[w].pc = "failure_set"
    /\ login_attempts' = DictSet(login_attempts, threads[w].ip, threads[w].attempts)
    /\ IF ThresholdReached(threads[w].attempts)
       THEN IF threads[w].ip \in safe_ips
            THEN Finish(w, "too_many", <<>>)
            ELSE /\ threads' = [threads EXCEPT ![w].pc = "ban_load"]
                 /\ UNCHANGED <<resp, fail_streak>>
       ELSE Finish(w, "invalid", <<>>)
    /\ UNCHANGED <<ip_bans_yaml, at_restart, ban_written, served>>
    /\ UNCHANGED <<cache_vars, more_vars>>

\* ban_ip: bans = load_banned_ips(); if ip not in bans: bans.append(ip)
BanLoad(w) ==
    /\ threads[w].pc = "ban_load"
    /\ LET bans == load_banned_ips(ip_bans_yaml, "ok") IN
       IF threads[w].ip \in Elems(bans)
       THEN Finish(w, "too_many", <<>>)
       ELSE /\ threads' = [threads EXCEPT ![w].pc = "ban_open",
                                          ![w].bans = Append(bans, threads[w].ip)]
            /\ UNCHANGED <<resp, fail_streak>>
    /\ UNCHANGED <<login_attempts, ip_bans_yaml, at_restart, ban_written, served>>
    /\ UNCHANGED <<cache_vars, more_vars>>

\* ban_ip: open('ip_bans.yaml', 'w') truncates the file
BanOpen(w) ==
    /\ threads[w].pc = "ban_open"
    /\ ip_bans_yaml' = TruncatedFile
    /\ threads' = [threads EXCEPT ![w].pc = "ban_dump"]
    /\ UNCHANGED <<login_attempts, resp, fail_streak, at_restart, ban_written, served>>
    /\ UNCHANGED <<cache_vars, more_vars>>

\* ban_ip: yaml.dump({'banned_ips': bans}, f) and the close of the file
BanDump(w) ==
    /\ threads[w].pc = "ban_dump"
    /\ ip_bans_yaml' = BanFile(threads[w].bans)
    /\ ban_written' = ban_written \cup {threads[w].ip}
    /\ Finish(w, "too_many", <<>>)
    /\ UNCHANGED <<login_attempts, at_restart, served>>
    /\ UNCHANGED <<cache_vars, more_vars>>

ThreadInit ==
    /\ threads = [w \in Workers |-> Idle]
    /\ ban_written = {}
    /\ served = 0

\* failures each address outside the safe set has made, one after the
\* other, before the threads are observed
PriorFailures == {3, 4}

\* the server after those failures, each answered "invalid"
WarnedInit ==
    \E n \in PriorFailures :
        /\ login_attempts = [ip \in Addrs \ safe_ips |-> n]
        /\ fail_streak = [ip \in Addrs |-> IF ip \in safe_ips THEN 0 ELSE n]
        /\ ip_bans_yaml = NoFile
        /\ resp = Response("", "", "none", <<>>, FALSE, 0)
        /\ at_restart = {}

(***************************************************************************)
(* get_states run by worker threads: one action per access to the shared   *)
(* fields _states_cache and _states_cache_time.  No lock is taken.         *)
(***************************************************************************)
GsIdle ==
    [pc |-> "idle", force |-> FALSE, t |-> 0, states |-> <<>>, id |-> 0,
     prev_time |-> None]

\* now = datetime.now() and the validity test of lines 125-128
GsBegin(w, force_refresh) ==
    /\ gs[w].pc = "idle"
    /\ gs' = [gs EXCEPT ![w] =
                [pc |-> IF CacheValid(force_refresh, states_cache,
                                      states_cache_time, now)
                        THEN "hit" ELSE "request",
                 force |-> force_refresh, t |-> now, states |-> <<>>, id |-> 0,
                 prev_time |-> states_cache_time]]
    /\ UNCHANGED <<entry_by, refreshes, policy, call>>
    /\ UNCHANGED <<guard_vars, cache_vars, thread_vars>>

\* return self._states_cache
GsHit(w) ==
    /\ gs[w].pc = "hit"
    /\ ret' = Return("return", states_cache[1], NoError, 0, gs[w].force,
                     gs[w].prev_time)
    /\ gs' = [gs EXCEPT ![w] = GsIdle]
    /\ UNCHANGED <<now, states_cache, states_cache_time, remote_states>>
    /\ UNCHANGED <<entry_by, refreshes, policy, call>>
    /\ UNCHANGED <<guard_vars, thread_vars>>

\* states = self._request("GET", "/api/states")
GsRequest(w, outcome) ==
    /\ gs[w].pc = "request"
    /\ refreshes < MaxRefreshes
    /\ refreshes' = refreshes + 1
    /\ LET r == Request(outcome, remote_states) IN
       IF r.kind = "return"
       THEN /\ gs' = [gs EXCEPT ![w].pc = "store_cache", ![w].states = r.value,
                                ![w].id = refreshes + 1]
            /\ UNCHANGED ret
       ELSE /\ gs' = [gs EXCEPT ![w] = GsIdle]
            /\ ret' = Return(r.kind, r.value, r.exc, 1, gs[w].force,
                             gs[w].prev_time)
    /\ UNCHANGED <<now, states_cache, states_cache_time, remote_states>>
    /\ UNCHANGED <<entry_by, policy, call>>
    /\ UNCHANGED <<guard_vars, thread_vars>>

\* self._states_cache = states
GsStoreCache(w) ==
    /\ gs[w].pc = "store_cache"
    /\ states_cache' = Some(gs[w].states)
    /\ entry_by' = [entry_by EXCEPT !.cache = gs[w].id]
    /\ gs' = [gs EXCEPT ![w].pc = "store_time"]
    /\ UNCHANGED <<now, states_cache_time, remote_states, ret>>
    /\ UNCHANGED <<refreshes, policy, call>>
    /\ UNCHANGED <<guard_vars, thread_vars>>

\* self._states_cache_time = now; return states
GsStoreTime(w) ==
    /\ gs[w].pc = "store_time"
    /\ states_cache_time' = Some(gs[w].t)
    /\ entry_by' = [entry_by EXCEPT !.time = gs[w].id]
    /\ ret' = Return("return", gs[w].states, NoError, 1, gs[w].force,
                     gs[w].prev_time)
    /\ gs' = [gs EXCEPT ![w] = GsIdle]
    /\ UNCHANGED <<now, states_cache, remote_states>>
    /\ UNCHANGED <<refreshes, policy, call>>
    /\ UNCHANGED <<guard_vars, thread_vars>>

GsInit ==
    /\ gs = [w \in Workers |-> GsIdle]
    /\ entry_by = [cache |-> 0, time |-> 0]
    /\ refreshes = 0

\* no operation has run yet
NoCall == [op |-> "none"]

\* the operation's result has gone to its caller; the next one may start
Respond ==
    /\ call # NoCall
    /\ call' = NoCall
    /\ UNCHANGED <<gs_vars, policy>>
    /\ UNCHANGED <<guard_vars, cache_vars, thread_vars>>

\* a configuration without whitelist and blacklist
NoPolicy == [whitelist |-> <<>>, blacklist |-> <<>>]

MoreInit ==
    /\ GsInit
    /\ policy = NoPolicy
    /\ call = NoCall

(***************************************************************************)
(* AccessPolicy: Config.is_entity_allowed of config.py.  Entity ids and    *)
(* patterns are sequences of characters.                                   *)
(***************************************************************************)
\* after a "[" of a pattern: the index in rest of the "]" that closes the
\* class, 0 when there is none (fnmatch then takes the "[" literally).  A
\* "!" and a "]" right after the "[" belong to the class.
ClassEnd(rest) ==
    LET n == Len(rest)
        j1 == IF 1 <= n /\ rest[1] = "!" THEN 2 ELSE 1
        j2 == IF j1 <= n /\ rest[j1] = "]" THEN j1 + 1 ELSE j1
        closing == {j \in j2..n : rest[j] = "]"}
    IN IF closing = {} THEN 0
       ELSE CHOOSE j \in closing : \A k \in closing : j <= k

RECURSIVE FnMatch(_, _)
\* fnmatch.fnmatch(name, pat) on a POSIX host (os.path.normcase keeps the
\* case): "*" any run of characters, "?" one character, "[seq]" one
\* character of seq, "[!seq]" one character not in seq, the whole name
\* must match
FnMatch(name, pat) ==
    IF pat = <<>> THEN name = <<>>
    ELSE LET c == Head(pat)
             rest == Tail(pat)
         IN
         IF c = "*"
         THEN FnMatch(name, rest) \/ (name # <<>> /\ FnMatch(Tail(name), pat))
         ELSE IF c = "?"
         THEN name # <<>> /\ FnMatch(Tail(name), rest)
         ELSE IF c = "[" /\ ClassEnd(rest) > 0
         THEN LET j == ClassEnd(rest)
                  stuff == SubSeq(rest, 1, j - 1)
                  negated == Head(stuff) = "!"
                  members == Elems(IF negated THEN Tail(stuff) ELSE stuff)
              IN /\ name # <<>>
                 /\ (Head(name) \in members) # negated
                 /\ FnMatch(Tail(name), SubSeq(rest, j + 1, Len(rest)))
         ELSE name # <<>> /\ Head(name) = c /\ FnMatch(Tail(name), rest)

RECURSIVE AnyMatch(_, _)
\* for pattern in patterns: if fnmatch.fnmatch(entity_id, pattern): ...
\* TRUE when the loop reaches a pattern that matches
AnyMatch(entity_id, patterns) ==
    IF patterns = <<>> THEN FALSE
    ELSE IF FnMatch(entity_id, Head(patterns)) THEN TRUE
    ELSE AnyMatch(entity_id, Tail(patterns))

\* a policy that lets the blacklist veto what the whitelist allows
is_entity_allowed_BlacklistVeto(entity_id, whitelist, blacklist) ==
    IF whitelist # <<>>
    THEN AnyMatch(entity_id, whitelist) /\ ~AnyMatch(entity_id, blacklist)
    ELSE ~AnyMatch(entity_id, blacklist)

\* a policy that never consults the blacklist
is_entity_allowed_NoBlacklist(entity_id, whitelist, blacklist) ==
    IF whitelist # <<>> THEN AnyMatch(entity_id, whitelist) ELSE TRUE

is_entity_allowed(entity_id, whitelist, blacklist) ==
    IF whitelist # <<>>
    THEN AnyMatch(entity_id, whitelist)
    ELSE IF blacklist # <<>>
    THEN ~AnyMatch(entity_id, blacklist)
    ELSE TRUE

\* entity ids asked for: c.k, s.o, s.dr, C.k, c.[, "c." and the empty id
EntityIds ==
    {<<"c", ".", "k">>, <<"s", ".", "o">>, <<"s", ".", "d", "r">>,
     <<"C", ".", "k">>, <<"c", ".", "[">>, <<"c", ".">>, <<>>}

\* patterns of config.yaml: c.*  s.d*  s.?  c.[!k]  c.[  s.o
Patterns ==
    {<<"c", ".", "*">>, <<"s", ".", "d", "*">>, <<"s", ".", "?">>,
     <<"c", ".", "[", "!", "k", "]">>, <<"c", ".", "[">>, <<"s", ".", "o">>}

\* whitelist and blacklist of config.yaml, each of up to MaxPatterns patterns
PatternLists == UNION {[1..n -> Patterns] : n \in 0..MaxPatterns}

Policies == [whitelist : PatternLists, blacklist : PatternLists]

\* config.is_entity_allowed(entity_id)
IsEntityAllowed(entity_id) ==
    /\ call = NoCall
    /\ call' = [op |-> "is_entity_allowed", entity_id |-> entity_id,
                result |-> is_entity_allowed(entity_id, policy.whitelist,
                                             policy.blacklist)]
    /\ UNCHANGED <<gs_vars, policy>>
    /\ UNCHANGED <<guard_vars, cache_vars, thread_vars>>

\* the process after load_config() read some whitelist and blacklist
InitPolicy ==
    /\ GuardInit /\ CacheInit /\ ThreadInit /\ GsInit
    /\ policy \in Policies
    /\ call = NoCall

(***************************************************************************)
(* Parsed JSON as Python holds it: a tag and a payload.                    *)
(***************************************************************************)
JNull == <<"null">>

JBool(b) == <<"bool", b>>

\* a number, in tenths
JNum(n) == <<"num", n>>

JStr(s) == <<"str", s>>

\* a list: a sequence of values
JList(seq) == <<"list", seq>>

\* a mapping: a function from keys to values
JDict(f) == <<"dict", f>>

\* bool(v) of Python
Truthy(v) ==
    IF v[1] = "null" THEN FALSE
    ELSE IF v[1] = "bool" THEN v[2]
    ELSE IF v[1] = "num" THEN v[2] # 0
    ELSE IF v[1] = "str" THEN v[2] # ""
    ELSE IF v[1] = "list" THEN v[2] # <<>>
    ELSE DOMAIN v[2] # {}

\* d.get(key, default) for a mapping d
JGet(d, key, default) == IF key \in DOMAIN d[2] THEN d[2][key] ELSE default

Raised(error) ==
    [kind |-> "raise", value |-> JNull,
     exc |-> [error |-> error, status_code |-> 0]]

Returned(value) == [kind |-> "return", value |-> value, exc |-> NoError]

(***************************************************************************)
(* HistoryFetcher: HomeAssistantAPI.get_history.                           *)
(***************************************************************************)
\* the GET /api/history/period/<start> request with its parameters
HistoryRequest(entity_id, start_time, end_time, minimal_response) ==
    [endpoint |-> "/api/history/period", start |-> start_time,
     filter_entity_id |-> entity_id, end_time |-> end_time,
     minimal_response |-> minimal_response]

\* if result and len(result) > 0: return result[0]; return []
\* len() of a number raises TypeError, [0] of a mapping raises KeyError;
\* strings of the model have one character, which is their [0]
FirstList(result) ==
    IF ~Truthy(result) THEN Returned(JList(<<>>))
    ELSE IF result[1] \in {"num", "bool"} THEN Raised("TypeError")
    ELSE IF result[1] = "dict" THEN Raised("KeyError")
    ELSE IF result[1] = "list" THEN Returned(result[2][1])
    ELSE Returned(result)

\* a get_history that asks again after a failure and then gives up with []
get_history_Retry(request, outcome, body) ==
    LET r == Request(outcome, body) IN
    IF r.kind = "raise"
    THEN [result |-> Returned(JList(<<>>)), requests |-> <<request, request>>]
    ELSE [result |-> FirstList(r.value), requests |-> <<request>>]

\* get_history: the requests it issues and how it ends, given how the
\* remote request ends (outcome) and the body it parses to
get_history(request, outcome, body) ==
    LET r == Request(outcome, body) IN
    IF r.kind = "raise"
    THEN [result |-> [kind |-> "raise", value |-> JNull, exc |-> r.exc],
          requests |-> <<request>>]
    ELSE [result |-> FirstList(r.value), requests |-> <<request>>]

\* timestamps of history entries as Home Assistant writes them
Stamps == {"2024-05-01T10:00:00+00:00", "2024-05-02T10:00:00+00:00"}

\* a history entry of the minimal response
MinimalEntry(stamp, state) ==
    JDict([last_changed |-> JStr(stamp), state |-> JStr(state)])

\* what the history endpoint may parse to: null, [], [[]], one list of
\* entries, two lists, {}, an error mapping, numbers, strings, a list
\* that holds entries instead of lists
HistoryBodies ==
    {JNull, JList(<<>>), JList(<<JList(<<>>)>>),
     JList(<<JList(<<MinimalEntry("2024-05-01T10:00:00+00:00", "21.5")>>)>>),
     JList(<<JList(<<MinimalEntry("2024-05-01T10:00:00+00:00", "21.5"),
                     MinimalEntry("2024-05-02T10:00:00+00:00", "on")>>),
             JList(<<MinimalEntry("2024-05-02T10:00:00+00:00", "off")>>)>>),
     JDict(EmptyDict), JDict([message |-> JStr("Invalid datetime")]),
     JNum(0), JNum(50), JStr(""), JStr("e"), JBool(TRUE),
     JList(<<MinimalEntry("2024-05-01T10:00:00+00:00", "21.5")>>)}

\* the windows asked for: <<start_time, end_time>> in seconds
Windows == {<<-3600, 0>>, <<-86400, -3600>>}

\* ha_api.get_history(entity_id, start_time, end_time, minimal_response)
GetHistory(entity_id, window, minimal_response, outcome, body) ==
    LET request == HistoryRequest(entity_id, window[1], window[2],
                                  minimal_response)
        h == get_history(request, outcome, body)
    IN
    /\ call = NoCall
    /\ call' = [op |-> "get_history", entity_id |-> entity_id,
                outcome |-> outcome, body |-> body,
                requests |-> h.requests, result |-> h.result]
    /\ UNCHANGED <<gs_vars, policy>>
    /\ UNCHANGED <<guard_vars, cache_vars, thread_vars>>

(***************************************************************************)
(* RangeDiscovery: HomeAssistantAPI.get_available_history_range.           *)
(***************************************************************************)
\* timedelta(days=1) and timedelta(hours=1), in seconds
Day == 86400

Hour == 3600

\* the probes from shortest to longest
ProbeDays_Ascending == <<1, 3, 7, 14, 30>>

\* far_back = now - timedelta(days=30), then for days in [14, 7, 3, 1]
ProbeDays == <<30, 14, 7, 3, 1>>

\* date_parser.parse() of the timestamps of the model, in seconds on the
\* clock of now; any other string raises ParserError, a non-string TypeError
ParseDate(v) ==
    IF v[1] # "str" THEN Raised("TypeError")
    ELSE IF v[2] = "2024-05-01T10:00:00+00:00" THEN Returned(0 - 29 * Day)
    ELSE IF v[2] = "2024-05-02T10:00:00+00:00" THEN Returned(0 - 28 * Day)
    ELSE IF v[2] = "2024-04-30T10:00:00+00:00" THEN Returned(0 - 30 * Day)
    ELSE IF v[2] = "2031-01-01T00:00:00+00:00" THEN Returned(2407 * Day)
    ELSE Raised("ParserError")

\* date_parser.parse(history[0].get("last_changed",
\*                                  history[0].get("last_updated")))
Earliest(history) ==
    IF history[1] \in {"num", "bool"} THEN Raised("TypeError")
    ELSE IF history[1] = "dict" THEN Raised("KeyError")
    ELSE IF history[1] = "str" THEN Raised("AttributeError")
    ELSE LET first == history[2][1] IN
         IF first[1] # "dict" THEN Raised("AttributeError")
         ELSE ParseDate(JGet(first, "last_changed",
                             JGet(first, "last_updated", JNull)))

\* the probe of the hour that starts the given number of days before t
ProbeRequest(entity_id, t, days) ==
    HistoryRequest(entity_id, t - days * Day, t - days * Day + Hour, TRUE)

RECURSIVE Probe(_, _, _, _, _)
\* the probes from the i-th on: responses[i] is what the remote side
\* answers to the i-th probe, requests are those issued so far
Probe(entity_id, t, i, responses, requests) ==
    IF i > Len(ProbeDays)
    THEN [result |-> Returned(<<None, t>>), requests |-> requests]
    ELSE LET h == get_history(ProbeRequest(entity_id, t, ProbeDays[i]),
                              responses[i].outcome, responses[i].body)
             issued == requests \o h.requests
         IN
         IF h.result.kind = "raise"
         THEN [result |-> h.result, requests |-> issued]
         ELSE IF Truthy(h.result.value)
         THEN LET earliest == Earliest(h.result.value) IN
              IF earliest.kind = "raise"
              THEN [result |-> earliest, requests |-> issued]
              ELSE [result |-> Returned(<<Some(earliest.value), t>>),
                    requests |-> issued]
         ELSE Probe(entity_id, t, i + 1, responses, issued)

get_available_history_range(entity_id, t, responses) ==
    Probe(entity_id, t, 1, responses, <<>>)

\* what the remote side answers to a probe: nothing recorded ([] or [[]]),
\* one entry, one entry without a timestamp, one entry with last_updated
\* alone, one entry whose last_changed is null, no answer in time
ProbeResponses ==
    {[outcome |-> "ok", body |-> JList(<<>>)],
     [outcome |-> "ok", body |-> JList(<<JList(<<>>)>>)],
     [outcome |-> "ok", body |->
        JList(<<JList(<<MinimalEntry("2024-05-01T10:00:00+00:00", "21.5")>>)>>)],
     [outcome |-> "ok", body |->
        JList(<<JList(<<JDict([state |-> JStr("21.5")])>>)>>)],
     [outcome |-> "ok", body |->
        JList(<<JList(<<JDict([last_updated |-> JStr("2024-05-02T10:00:00+00:00"),
                               state |-> JStr("21.5")])>>)>>)],
     [outcome |-> "ok", body |->
        JList(<<JList(<<JDict([last_changed |-> JNull,
                               last_updated |-> JStr("2024-05-02T10:00:00+00:00"),
                               state |-> JStr("21.5")])>>)>>)],
     [outcome |-> "timeout", body |-> JNull]}

\* ha_api.get_available_history_range(entity_id)
GetAvailableHistoryRange(entity_id, responses) ==
    LET r == get_available_history_range(entity_id, now, responses) IN
    /\ call = NoCall
    /\ call' = [op |-> "get_available_history_range", entity_id |-> entity_id,
                responses |-> responses, now |-> now,
                requests |-> r.requests, result |-> r.result]
    /\ UNCHANGED <<gs_vars, policy>>
    /\ UNCHANGED <<guard_vars, cache_vars, thread_vars>>

(***************************************************************************)
(* The per-entity endpoints of server.py: what each does, in order, up to  *)
(* its remote call, and the status it answers with.                        *)
(***************************************************************************)
Endpoints ==
    {"get_entity_history", "get_entity_details", "get_attribute_history",
     "get_history_range", "export_entity_history", "export_attribute_history"}

\* the endpoints that read the key parameter first
KeyedEndpoints == {"get_attribute_history", "export_attribute_history"}

\* the endpoints whose failures end in "except Exception: ... 400"
ExportEndpoints == {"export_entity_history", "export_attribute_history"}

\* config.app.default_history_days
default_history_days == 4

\* timedelta(minutes=5) of get_entity_details, in seconds
DetailsMargin == 300

\* request.args: "" stands for a parameter that was not sent
QueryArgs ==
    [start : {"", "2024-05-01T10:00:00+00:00", "2031-01-01T00:00:00+00:00",
              "yesterday"},
     end : {"", "2024-05-02T10:00:00+00:00", "2024-04-30T10:00:00+00:00",
            "tomorrow"},
     key : {"", "current_temperature"},
     timestamp : {"", "2024-05-01T10:00:00+00:00", "noon"}]

\* what the handler did: the steps it ran in order, the remote requests
\* it issued, the HTTP status it answered with
Handled(status, steps, requests) ==
    [status |-> status, steps |-> steps, requests |-> requests]

\* the window of the request: <<kind, start_time, end_time>>, from
\* timestamp for get_entity_details, else from start and end, now and
\* default_history_days standing in for what was not sent
RequestWindow(endpoint, args, t) ==
    IF endpoint = "get_entity_details"
    THEN LET ts == ParseDate(JStr(args.timestamp)) IN
         IF ts.kind = "raise" THEN <<"raise", 0, 0>>
         ELSE <<"return", ts.value - DetailsMargin, ts.value + DetailsMargin>>
    ELSE IF args.start = ""
    THEN <<"return", t - default_history_days * Day, t>>
    ELSE LET start_time == ParseDate(JStr(args.start))
             end_time == IF args.end = "" THEN Returned(t)
                         ELSE ParseDate(JStr(args.end))
         IN IF start_time.kind = "raise" \/ end_time.kind = "raise"
            THEN <<"raise", 0, 0>>
            ELSE <<"return", start_time.value, end_time.value>>

\* the body of a handler after validate_entity_access let the request pass
Serve(endpoint, entity_id, args, outcome, body, t, steps) ==
    IF endpoint = "get_history_range"
    THEN LET r == get_available_history_range(entity_id, t,
                      [i \in 1..Len(ProbeDays) |->
                          [outcome |-> outcome, body |-> body]])
         IN Handled(IF r.result.kind = "raise" THEN 500 ELSE 200,
                    Append(steps, "remote"), r.requests)
    ELSE IF endpoint \in KeyedEndpoints /\ args.key = ""
    THEN Handled(400, Append(steps, "args"), <<>>)
    ELSE IF endpoint = "get_entity_details" /\ args.timestamp = ""
    THEN Handled(400, Append(steps, "args"), <<>>)
    ELSE LET window == RequestWindow(endpoint, args, t)
             parsed == steps \o <<"args", "parse">>
         IN
         IF window[1] = "raise"
         THEN Handled(IF endpoint = "get_entity_details" THEN 500 ELSE 400,
                      parsed, <<>>)
         ELSE LET h == get_history(HistoryRequest(entity_id, window[2],
                                                  window[3], FALSE),
                                   outcome, body)
                  status ==
                      IF h.result.kind = "raise"
                      THEN IF endpoint \in ExportEndpoints THEN 400 ELSE 500
                      ELSE IF endpoint = "get_entity_details"
                              /\ ~Truthy(h.result.value)
                      THEN 404
                      ELSE 200
              IN Handled(status, Append(parsed, "remote"), h.requests)

\* a handler that fetches first and checks the policy on the way out
Handler_FetchFirst(endpoint, authenticated, entity_id, args, outcome, body, t) ==
    IF DOMAIN users # {} /\ ~authenticated
    THEN Handled(302, <<"login_required">>, <<>>)
    ELSE LET answer == Serve(endpoint, entity_id, args, outcome, body, t,
                             <<"login_required">>)
         IN IF is_entity_allowed(entity_id, policy.whitelist, policy.blacklist)
            THEN answer
            ELSE Handled(403, Append(answer.steps, "validate_entity_access"),
                         answer.requests)

\* @login_required, then validate_entity_access(entity_id) as the first
\* statement of the view function, then the rest of it
Handler(endpoint, authenticated, entity_id, args, outcome, body, t) ==
    IF DOMAIN users # {} /\ ~authenticated
    THEN Handled(302, <<"login_required">>, <<>>)
    ELSE IF ~is_entity_allowed(entity_id, policy.whitelist, policy.blacklist)
    THEN Handled(403, <<"login_required", "validate_entity_access">>, <<>>)
    ELSE Serve(endpoint, entity_id, args, outcome, body, t,
               <<"login_required", "validate_entity_access">>)

\* the history bodies the endpoints are served: nothing, or one entry
EndpointBodies ==
    {JList(<<>>),
     JList(<<JList(<<MinimalEntry("2024-05-01T10:00:00+00:00", "21.5")>>)>>)}

\* a GET on one of the per-entity endpoints
Endpoint(endpoint, authenticated, entity_id, args, outcome, body) ==
    LET h == Handler(endpoint, authenticated, entity_id, args, outcome, body, now)
    IN
    /\ call = NoCall
    /\ call' = [op |-> "endpoint", endpoint |-> endpoint,
                authenticated |-> authenticated, entity_id |-> entity_id,
                args |-> args, status |-> h.status, steps |-> h.steps,
                requests |-> h.requests]
    /\ UNCHANGED <<gs_vars, policy>>
    /\ UNCHANGED <<guard_vars, cache_vars, thread_vars>>

\* the configurations served: no lists, a whitelist, a blacklist, both
ServedPolicies ==
    {NoPolicy,
     [whitelist |-> <<<<"c", ".", "*">>>>, blacklist |-> <<>>],
     [whitelist |-> <<>>, blacklist |-> <<<<"s", ".", "d", "*">>>>],
     [whitelist |-> <<<<"c", ".", "*">>, <<"s", ".", "?">>>>,
      blacklist |-> <<<<"c", ".", "[", "!", "k", "]">>>>]}

InitEndpoints ==
    /\ GuardInit /\ CacheInit /\ ThreadInit /\ GsInit
    /\ policy \in ServedPolicies
    /\ call = NoCall

(***************************************************************************)
(* SeriesTransformer: process_climate_history, process_generic_history and *)
(* the loop of get_attribute_history (server.py).  Numbers are in tenths.  *)
(***************************************************************************)
T1 == JStr("2024-05-01T10:00:00+00:00")

T2 == JStr("2024-05-02T10:00:00+00:00")

\* a timestamp rule that prefers last_updated
Stamp_UpdatedFirst(entry) ==
    LET last_updated == JGet(entry, "last_updated", JNull) IN
    IF Truthy(last_updated) THEN last_updated
    ELSE JGet(entry, "last_changed", JNull)

\* ts = entry.get("last_changed") or entry.get("last_updated")
Stamp(entry) ==
    LET last_changed == JGet(entry, "last_changed", JNull) IN
    IF Truthy(last_changed) THEN last_changed
    ELSE JGet(entry, "last_updated", JNull)

\* float() of the state strings of the model: "21.5" and "21.50" are the
\* same number, "on", "heat" and the empty string raise ValueError
ParseFloat(s) ==
    IF s \in {"21.5", "21.50"} THEN Returned(JNum(215))
    ELSE IF s = "7" THEN Returned(JNum(70))
    ELSE IF s = "0" THEN Returned(JNum(0))
    ELSE Raised("ValueError")

\* float(state)
ToFloat(v) ==
    IF v[1] = "str" THEN ParseFloat(v[2])
    ELSE IF v[1] = "num" THEN Returned(v)
    ELSE IF v[1] = "bool" THEN Returned(JNum(IF v[2] THEN 10 ELSE 0))
    ELSE Raised("TypeError")

\* the state strings that stand for "no reading"
Sentinels == {JStr("unknown"), JStr("unavailable")}

\* the element appended to states for a raw state: float(state) when the
\* conversion is tried and succeeds, else the state as it came
GenericState(state) ==
    IF state # JNull /\ state \notin Sentinels /\ ToFloat(state).kind = "return"
    THEN ToFloat(state).value
    ELSE state

\* a classification that every converted state decides anew
GenericNumeric_LastWins(is_numeric, state) ==
    IF state = JNull \/ state \in Sentinels
    THEN is_numeric
    ELSE Some(ToFloat(state).kind = "return")

\* is_numeric after an entry: set by the first state the conversion is
\* tried on, kept afterwards
GenericNumeric(is_numeric, state) ==
    IF is_numeric # None \/ state = JNull \/ state \in Sentinels
    THEN is_numeric
    ELSE Some(ToFloat(state).kind = "return")

RECURSIVE GenericLoop(_, _, _)
\* for entry in history_data, from the i-th entry on
GenericLoop(history, i, acc) ==
    IF i > Len(history) THEN acc
    ELSE LET entry == history[i]
             ts == Stamp(entry)
             state == JGet(entry, "state", JNull)
         IN
         IF ~Truthy(ts) THEN GenericLoop(history, i + 1, acc)
         ELSE GenericLoop(history, i + 1,
                  [timestamps |-> Append(acc.timestamps, ts),
                   states |-> Append(acc.states, GenericState(state)),
                   is_numeric |-> GenericNumeric(acc.is_numeric, state)])

\* entity_id.split(".")[0] if "." in entity_id else ""
Domain(entity_id) ==
    IF "." \in Elems(entity_id)
    THEN LET dot == CHOOSE i \in 1..Len(entity_id) :
                       /\ entity_id[i] = "."
                       /\ \A j \in 1..(i - 1) : entity_id[j] # "."
         IN SubSeq(entity_id, 1, dot - 1)
    ELSE <<>>

process_generic_history(history, entity_id) ==
    LET acc == GenericLoop(history, 1,
                   [timestamps |-> <<>>, states |-> <<>>, is_numeric |-> None])
    IN Returned([type |-> IF acc.is_numeric = Some(TRUE) THEN "numeric" ELSE "text",
                 domain |-> Domain(entity_id),
                 timestamps |-> acc.timestamps,
                 states |-> acc.states])

\* the external temperature read from the top level first
ClimateRow_TopLevelFirst(entry) ==
    LET attrs == JGet(entry, "attributes", JDict(EmptyDict)) IN
    IF attrs[1] # "dict" THEN Raised("AttributeError")
    ELSE LET specific_states == JGet(attrs, "specific_states", JDict(EmptyDict)) IN
         IF specific_states[1] # "dict" THEN Raised("AttributeError")
         ELSE LET top == JGet(attrs, "ext_current_temperature", JNull)
                  ext == IF top = JNull
                         THEN JGet(specific_states, "ext_current_temperature", JNull)
                         ELSE top
                  hvac_action == JGet(attrs, "hvac_action", JStr("idle"))
              IN Returned([current_temperature |->
                               JGet(attrs, "current_temperature", JNull),
                           temperature |-> JGet(attrs, "temperature", JNull),
                           ext_current_temperature |-> ext,
                           is_heating |-> IF hvac_action = JStr("heating")
                                          THEN JNum(10) ELSE JNum(0)])

\* the four values process_climate_history appends for one entry, or the
\* AttributeError of calling .get on an attributes or specific_states
\* value that is not a mapping
ClimateRow(entry) ==
    LET attrs == JGet(entry, "attributes", JDict(EmptyDict)) IN
    IF attrs[1] # "dict" THEN Raised("AttributeError")
    ELSE LET specific_states == JGet(attrs, "specific_states", JDict(EmptyDict)) IN
         IF specific_states[1] # "dict" THEN Raised("AttributeError")
         ELSE LET nested == JGet(specific_states, "ext_current_temperature", JNull)
                  ext == IF nested = JNull
                         THEN JGet(attrs, "ext_current_temperature", JNull)
                         ELSE nested
                  hvac_action == JGet(attrs, "hvac_action", JStr("idle"))
              IN Returned([current_temperature |->
                               JGet(attrs, "current_temperature", JNull),
                           temperature |-> JGet(attrs, "temperature", JNull),
                           ext_current_temperature |-> ext,
                           is_heating |-> IF hvac_action = JStr("heating")
                                          THEN JNum(10) ELSE JNum(0)])

RECURSIVE ClimateLoop(_, _, _)
\* for entry in history_data, from the i-th entry on
ClimateLoop(history, i, acc) ==
    IF i > Len(history) THEN Returned(acc)
    ELSE LET entry == history[i]
             ts == Stamp(entry)
             row == ClimateRow(entry)
         IN
         IF ~Truthy(ts) THEN ClimateLoop(history, i + 1, acc)
         ELSE IF row.kind = "raise" THEN row
         ELSE ClimateLoop(history, i + 1,
                  [type |-> "climate",
                   timestamps |-> Append(acc.timestamps, ts),
                   current_temperature |->
                       Append(acc.current_temperature, row.value.current_temperature),
                   temperature |-> Append(acc.temperature, row.value.temperature),
                   ext_current_temperature |->
                       Append(acc.ext_current_temperature,
                              row.value.ext_current_temperature),
                   is_heating |-> Append(acc.is_heating, row.value.is_heating)])

process_climate_history(history) ==
    ClimateLoop(history, 1,
        [type |-> "climate", timestamps |-> <<>>, current_temperature |-> <<>>,
         temperature |-> <<>>, ext_current_temperature |-> <<>>,
         is_heating |-> <<>>])

\* key.split('.') for the keys of the model
KeyParts(key) ==
    IF key = "current_temperature" THEN <<"current_temperature">>
    ELSE IF key = "hvac_action" THEN <<"hvac_action">>
    ELSE <<"specific_states", "ext_current_temperature">>

AttributeKeys ==
    {"current_temperature", "hvac_action",
     "specific_states.ext_current_temperature"}

\* a walk that stops after the first part of the key
Walk_Shallow(val, key_parts, i) ==
    IF val[1] = "dict" THEN JGet(val, key_parts[1], JNull) ELSE JNull

RECURSIVE Walk(_, _, _)
\* for part in key_parts: val = val.get(part) if isinstance(val, dict)
\* else None (and stop)
Walk(val, key_parts, i) ==
    IF i > Len(key_parts) THEN val
    ELSE IF val[1] = "dict" THEN Walk(JGet(val, key_parts[i], JNull), key_parts, i + 1)
    ELSE JNull

\* a walk that reports 0 where nothing is found
AttributeValue_ZeroFill(entry, key) ==
    LET val == Walk(JGet(entry, "attributes", JDict(EmptyDict)), KeyParts(key), 1)
    IN IF val = JNull THEN JNum(0) ELSE val

\* the value of the attribute path in one entry
AttributeValue(entry, key) ==
    Walk(JGet(entry, "attributes", JDict(EmptyDict)), KeyParts(key), 1)

RECURSIVE AttributeLoop(_, _, _, _)
\* for entry in history, from the i-th entry on
AttributeLoop(history, key, i, acc) ==
    IF i > Len(history) THEN acc
    ELSE LET entry == history[i]
             ts == Stamp(entry)
             val == AttributeValue(entry, key)
         IN
         IF ~Truthy(ts) THEN AttributeLoop(history, key, i + 1, acc)
         ELSE AttributeLoop(history, key, i + 1,
                  [timestamps |-> Append(acc.timestamps, ts),
                   values |-> Append(acc.values, val),
                   is_numeric |->
                       IF acc.is_numeric = None /\ val # JNull
                       THEN Some(val[1] \in {"num", "bool"})
                       ELSE acc.is_numeric])

\* a series without a typed value classified as text
attribute_history_NullText(history, key) ==
    LET acc == AttributeLoop(history, key, 1,
                   [timestamps |-> <<>>, values |-> <<>>, is_numeric |-> None])
    IN Returned([key |-> key,
                 type |-> IF acc.is_numeric = Some(TRUE) THEN "numeric" ELSE "text",
                 timestamps |-> acc.timestamps,
                 values |-> acc.values])

\* lines 472-516 of get_attribute_history: the series built from history
attribute_history(history, key) ==
    LET acc == AttributeLoop(history, key, 1,
                   [timestamps |-> <<>>, values |-> <<>>, is_numeric |-> None])
    IN Returned([key |-> key,
                 type |-> IF acc.is_numeric \in {None, Some(TRUE)}
                          THEN "numeric" ELSE "text",
                 timestamps |-> acc.timestamps,
                 values |-> acc.values])

\* raw history entries: with and without each timestamp, with sentinel,
\* numeric, text, null and absent states, with full, partial, empty, null
\* and absent attributes
RawEntries ==
    {JDict([last_changed |-> T1, state |-> JStr("21.5"),
            attributes |-> JDict([current_temperature |-> JNum(215),
                                  temperature |-> JNum(200),
                                  hvac_action |-> JStr("heating"),
                                  specific_states |->
                                      JDict([ext_current_temperature |-> JNum(50)])])]),
     JDict([last_changed |-> T2, state |-> JStr("unavailable")]),
     JDict([last_updated |-> T2, state |-> JStr("unknown"),
            attributes |-> JDict(EmptyDict)]),
     JDict([state |-> JStr("21.5"),
            attributes |-> JDict([current_temperature |-> JNum(215)])]),
     JDict([last_changed |-> JStr(""), last_updated |-> T1, state |-> JStr("on"),
            attributes |-> JDict([hvac_action |-> JStr("idle"),
                                  ext_current_temperature |-> JNum(30)])]),
     JDict([last_changed |-> JNull, state |-> JStr("7")]),
     JDict([last_changed |-> T1, last_updated |-> T2,
            attributes |-> JDict([temperature |-> JNum(0),
                                  specific_states |-> JStr("x")])]),
     JDict([last_changed |-> T2, state |-> JStr("on"), attributes |-> JNull]),
     JDict([last_changed |-> T1, state |-> JNull,
            attributes |-> JDict([current_temperature |-> JNull,
                                  hvac_action |-> JStr("off"),
                                  specific_states |-> JDict(EmptyDict)])]),
     JDict([last_changed |-> T2, state |-> JStr("heat"),
            attributes |-> JDict([current_temperature |-> JStr("warm"),
                                  ext_current_temperature |-> JNum(30),
                                  specific_states |->
                                      JDict([ext_current_temperature |-> JNull])])]),
     JDict([last_changed |-> T1, state |-> JStr("heat"),
            attributes |-> JDict([hvac_action |-> JStr("heating"),
                                  ext_current_temperature |-> JNum(30),
                                  specific_states |->
                                      JDict([ext_current_temperature |-> JNum(0)])])])}

\* the histories transformed: up to MaxEntries raw entries
Histories == UNION {[1..n -> RawEntries] : n \in 0..MaxEntries}

\* the entity ids process_generic_history is called with: s.o and "so"
GenericEntityIds == {<<"s", ".", "o">>, <<"s", "o">>}

\* one of the three transformations applied to a history
Transform(mode, history, entity_id, key) ==
    /\ call = NoCall
    /\ call' = [op |-> "transform", mode |-> mode, history |-> history,
                result |->
                    IF mode = "climate" THEN process_climate_history(history)
                    ELSE IF mode = "generic"
                    THEN process_generic_history(history, entity_id)
                    ELSE attribute_history(history, key)]
    /\ UNCHANGED <<gs_vars, policy>>
    /\ UNCHANGED <<guard_vars, cache_vars, thread_vars>>

(***************************************************************************)
(* The entity list: HomeAssistantAPI.get_entities_summary and the          *)
(* list_entities endpoint.  The strings of a states snapshot are sequences *)
(* of characters, as entity ids are for the access policy.                 *)
(***************************************************************************)
\* the characters of the names of the model, in code point order
Alphabet == <<".", "A", "B", "C", "[", "a", "b", "c", "d", "k", "o", "r", "s">>

\* the rank of a character's code point among those of the model
Ord(c) == CHOOSE i \in 1..Len(Alphabet) : Alphabet[i] = c

\* str.lower() of one character
LowerChar(c) ==
    IF c = "A" THEN "a" ELSE IF c = "B" THEN "b" ELSE IF c = "C" THEN "c" ELSE c

\* str.lower()
Lower(s) == [i \in 1..Len(s) |-> LowerChar(s[i])]

\* a < b of two Python strings: at the first index where they differ a has
\* the lower code point, or a ends there
StrLess(a, b) ==
    \E i \in 1..Len(b) :
        /\ \A j \in 1..(i - 1) : j <= Len(a) /\ a[j] = b[j]
        /\ (i > Len(a) \/ Ord(a[i]) < Ord(b[i]))

\* the summary of one entity state, or the AttributeError of calling .get
\* on an attributes value that is not a mapping
EntitySummary(state) ==
    LET entity_id == JGet(state, "entity_id", JStr(<<>>))
        attributes == JGet(state, "attributes", JDict(EmptyDict))
    IN
    IF attributes[1] # "dict" THEN Raised("AttributeError")
    ELSE Returned(JDict(
             [entity_id |-> entity_id,
              friendly_name |-> JGet(attributes, "friendly_name", entity_id),
              domain |-> JStr(Domain(entity_id[2])),
              state |-> JGet(state, "state",
                             JStr(<<"u", "n", "k", "n", "o", "w", "n">>)),
              icon |-> JGet(attributes, "icon", JStr(<<>>))]))

\* a sort key that keeps the case of the name
SortKey_CaseSensitive(entity) == entity[2].friendly_name[2]

\* key=lambda x: x["friendly_name"].lower()
SortKey(entity) == Lower(entity[2].friendly_name[2])

RECURSIVE Sorted(_)
\* entities.sort(key=...): list.sort is stable, so an entity stands behind
\* the entities before it in the list whose key is not greater than its own
Sorted(entities) ==
    IF entities = <<>> THEN <<>>
    ELSE LET n == Len(entities)
             last == entities[n]
             head == Sorted(SubSeq(entities, 1, n - 1))
             k == Cardinality({i \in 1..Len(head) :
                                  ~StrLess(SortKey(last), SortKey(head[i]))})
         IN SubSeq(head, 1, k) \o <<last>> \o SubSeq(head, k + 1, Len(head))

\* ha_api.get_entities_summary() on the states get_states returned; a
\* friendly_name that is not a string has no lower()
get_entities_summary(states) ==
    LET rows == [i \in 1..Len(states[2]) |-> EntitySummary(states[2][i])] IN
    IF \E i \in 1..Len(rows) : rows[i].kind = "raise"
    THEN Raised("AttributeError")
    ELSE LET entities == [i \in 1..Len(rows) |-> rows[i].value] IN
         IF \E i \in 1..Len(entities) : entities[i][2].friendly_name[1] # "str"
         THEN Raised("AttributeError")
         ELSE Returned(JList(Sorted(entities)))

\* the entity passes config.is_entity_allowed(e["entity_id"])
AllowedEntity(entity) ==
    is_entity_allowed(entity[2].entity_id[2], policy.whitelist, policy.blacklist)

\* the body of list_entities once get_states has ended with r: the status
\* and the JSON answered
list_entities(r) ==
    IF r.kind = "raise" THEN [status |-> 500, body |-> JNull]
    ELSE LET entities == get_entities_summary(r.value) IN
         IF entities.kind = "raise" THEN [status |-> 500, body |-> JNull]
         ELSE [status |-> 200,
               body |-> JList(SelectSeq(entities.value[2], AllowedEntity))]

\* a GET on /api/entities: login_required, then get_states with its cache,
\* then the summaries filtered by the policy
ListEntities(authenticated, outcome) ==
    /\ call = NoCall
    /\ IF DOMAIN users # {} /\ ~authenticated
       THEN /\ call' = [op |-> "list_entities", authenticated |-> authenticated,
                        fetched |-> "none", states |-> JNull,
                        status |-> 302, body |-> JNull]
            /\ UNCHANGED cache_vars
       ELSE LET hit == CacheValid(FALSE, states_cache, states_cache_time, now)
                r == IF hit THEN Returned(states_cache[1])
                     ELSE Request(outcome, remote_states)
                entry == IF hit THEN <<states_cache, states_cache_time>>
                         ELSE UpdatedCache(r, states_cache, states_cache_time, now)
                answer == list_entities(r)
            IN
            /\ states_cache' = entry[1]
            /\ states_cache_time' = entry[2]
            /\ ret' = Return(r.kind, r.value, r.exc, IF hit THEN 0 ELSE 1,
                             FALSE, states_cache_time)
            /\ call' = [op |-> "list_entities", authenticated |-> authenticated,
                        fetched |-> r.kind,
                        states |-> IF r.kind = "return" THEN r.value ELSE JNull,
                        status |-> answer.status, body |-> answer.body]
            /\ UNCHANGED <<now, remote_states>>
    /\ UNCHANGED <<gs_vars, policy>>
    /\ UNCHANGED <<guard_vars, thread_vars>>

\* entity states of a snapshot: with and without friendly_name, attributes,
\* entity_id and state, names that differ by case only, a null name
EntityStates ==
    {JDict([entity_id |-> JStr(<<"c", ".", "k">>),
            state |-> JStr(<<"o", "n">>),
            attributes |-> JDict([friendly_name |-> JStr(<<"B">>),
                                  icon |-> JStr(<<"a">>)])]),
     JDict([entity_id |-> JStr(<<"s", ".", "o">>),
            state |-> JStr(<<"o", "n">>),
            attributes |-> JDict([friendly_name |-> JStr(<<"b">>)])]),
     JDict([entity_id |-> JStr(<<"s", ".", "d", "r">>),
            attributes |-> JDict([friendly_name |-> JStr(<<"a", "b">>)])]),
     JDict([entity_id |-> JStr(<<"C", ".", "k">>),
            state |-> JStr(<<"o", "n">>),
            attributes |-> JDict(EmptyDict)]),
     JDict([entity_id |-> JStr(<<"c", ".", "[">>),
            state |-> JStr(<<"o", "n">>)]),
     JDict([state |-> JStr(<<"o", "n">>),
            attributes |-> JDict([friendly_name |-> JStr(<<"A">>)])]),
     JDict([entity_id |-> JStr(<<"c", ".">>),
            state |-> JStr(<<"o", "n">>),
            attributes |-> JDict([friendly_name |-> JNull])])}

\* the bodies of GET /api/states: up to MaxEntities entity states, each
\* entity once
EntitySnapshots ==
    {JList(seq) : seq \in
        {s \in UNION {[1..n -> EntityStates] : n \in 0..MaxEntities} :
            \A i, j \in 1..Len(s) : i # j => s[i] # s[j]}}

InitList ==
    /\ GuardInit /\ ThreadInit /\ GsInit
    /\ now = 0
    /\ states_cache = None
    /\ states_cache_time = None
    /\ remote_states \in EntitySnapshots
    /\ ret = Return("none", <<>>, NoError, 0, FALSE, None)
    /\ policy \in ServedPolicies
    /\ call = NoCall

Init == GuardInit /\ CacheInit /\ ThreadInit /\ MoreInit

Next ==
    \/ \E ip \in Addrs, method \in Methods, form \in Forms : Login(ip, method, form)
    \/ Restart

Spec == Init /\ [][Next]_vars

\* the same program with reads and rewrites of ip_bans.yaml that may raise
NextIO ==
    \/ \E ip \in Addrs, method \in Methods, form \in Forms :
            LoginFaulty(ip, method, form)
    \/ Restart

SpecIO == Init /\ [][NextIO]_vars

\* the state cache alone
NextCache ==
    \/ \E force_refresh \in ForceRefresh, outcome \in RemoteOutcomes,
          duration \in RequestDurations :
            GetStates(force_refresh, outcome, duration)
    \/ \E step \in TickSteps : Tick(step)
    \/ \E snapshot \in Snapshots : RemoteChange(snapshot)

SpecCache == Init /\ [][NextCache]_vars

\* login() served by concurrent worker threads
NextThreads ==
    \/ \E w \in Workers, ip \in Addrs, method \in Methods, form \in Forms :
            Begin(w, ip, method, form)
    \/ \E w \in Workers : SuccessTest(w)
    \/ \E w \in Workers : SuccessDel(w)
    \/ \E w \in Workers : FailureGet(w)
    \/ \E w \in Workers : FailureSet(w)
    \/ \E w \in Workers : BanLoad(w)
    \/ \E w \in Workers : BanOpen(w)
    \/ \E w \in Workers : BanDump(w)

InitThreads == WarnedInit /\ CacheInit /\ ThreadInit /\ MoreInit

SpecThreads == InitThreads /\ [][NextThreads]_vars

\* get_states served by concurrent worker threads
NextGetStates ==
    \/ \E w \in Workers, force_refresh \in ForceRefresh : GsBegin(w, force_refresh)
    \/ \E w \in Workers : GsHit(w)
    \/ \E w \in Workers, outcome \in RemoteOutcomes : GsRequest(w, outcome)
    \/ \E w \in Workers : GsStoreCache(w)
    \/ \E w \in Workers : GsStoreTime(w)
    \/ \E step \in SlowTickSteps : Tick(step)
    \/ \E snapshot \in Snapshots : RemoteChange(snapshot)

SpecGetStates == Init /\ [][NextGetStates]_vars

\* the access policy alone
NextPolicy ==
    \/ \E entity_id \in EntityIds : IsEntityAllowed(entity_id)
    \/ Respond

SpecPolicy == InitPolicy /\ [][NextPolicy]_vars

\* the operations on the remote history
NextApi ==
    \/ /\ call = NoCall
       /\ \E entity_id \in EntityIds, window \in Windows,
             minimal_response \in BOOLEAN, outcome \in RemoteOutcomes,
             body \in HistoryBodies :
               GetHistory(entity_id, window, minimal_response, outcome, body)
    \/ /\ call = NoCall
       /\ \E entity_id \in EntityIds,
             responses \in [1..Len(ProbeDays) -> ProbeResponses] :
               GetAvailableHistoryRange(entity_id, responses)
    \/ \E step \in SlowTickSteps : Tick(step)
    \/ Respond

SpecApi == Init /\ [][NextApi]_vars

\* the per-entity endpoints
NextEndpoints ==
    \/ /\ call = NoCall
       /\ \E endpoint \in Endpoints, authenticated \in BOOLEAN,
             entity_id \in EntityIds, args \in QueryArgs,
             outcome \in RemoteOutcomes, body \in EndpointBodies :
               Endpoint(endpoint, authenticated, entity_id, args, outcome, body)
    \/ \E step \in SlowTickSteps : Tick(step)
    \/ Respond

SpecEndpoints == InitEndpoints /\ [][NextEndpoints]_vars

\* the entity list endpoint
NextList ==
    \/ /\ call = NoCall
       /\ \E authenticated \in BOOLEAN, outcome \in RemoteOutcomes :
               ListEntities(authenticated, outcome)
    \/ \E step \in SlowTickSteps : Tick(step)
    \/ Respond

SpecList == InitList /\ [][NextList]_vars

\* the transformations of a raw history into series
NextTransform ==
    \/ /\ call = NoCall
       /\ \E history \in Histories :
             \/ Transform("climate", history, <<>>, "")
             \/ \E entity_id \in GenericEntityIds :
                   Transform("generic", history, entity_id, "")
             \/ \E key \in AttributeKeys :
                   Transform("attribute", history, <<>>, key)
    \/ Respond

SpecTransform == Init /\ [][NextTransform]_vars

UnsafeAddrs == Addrs \ safe_ips

SafeAddrs == Addrs \cap safe_ips

C3_BanPermanence == [][BanStore \subseteq BanStore']_vars

(***************************************************************************)
(* C4: when the worker threads have completed their requests, every        *)
(* address whose ban was written to ip_bans.yaml is in the store, whatever *)
(* the interleaving of the threads that banned them.                       *)
(***************************************************************************)
C4_NoLostBan ==
    (\A w \in Workers : threads[w].pc = "idle") => ban_written \subseteq BanStore

(***************************************************************************)
(* C5: an address of the safe set is never in the ban store, and a POST    *)
(* with correct credentials from it is answered with the redirect and      *)
(* stores the session, whatever its count of failures.                     *)
(***************************************************************************)
C5_SafeExempt ==
    /\ [](\A ip \in SafeAddrs : ip \notin BanStore)
    /\ [][\A ip \in SafeAddrs, form \in Forms :
            (CredentialsOk(form) /\ Login(ip, "POST", form))
               => /\ resp'.status = "redirect"
                  /\ resp'.session_user = <<form[1]>>]_vars

C5_Witness ==
    /\ resp.ip \in SafeAddrs
    /\ resp.status = "redirect"
    /\ resp.prior >= 5
    /\ resp.session_user # <<>>
    /\ resp.ip \notin BanStore

(***************************************************************************)
(* C6: the counter of an address is its streak of failures: no entry after *)
(* a success, 1 after the first failure, one more after each further       *)
(* failure; and an address enters the ban store only on the 5th failure of *)
(* a streak.                                                               *)
(***************************************************************************)
C6_SuccessResets ==
    /\ [](\A ip \in Addrs :
            /\ ip \in DOMAIN login_attempts <=> fail_streak[ip] > 0
            /\ ip \in DOMAIN login_attempts => login_attempts[ip] = fail_streak[ip])
    /\ [](resp.status = "redirect" => resp.ip \notin DOMAIN login_attempts)
    /\ [][\A ip \in UnsafeAddrs :
            (ip \notin BanStore /\ ip \in BanStore') => fail_streak'[ip] = 5]_vars

C6_Witness ==
    /\ resp.status = "redirect"
    /\ resp.prior \in 1..4
    /\ resp.ip \in UnsafeAddrs
    /\ resp.ip \notin DOMAIN login_attempts
    /\ fail_streak[resp.ip] = 0

C8_CacheIdempotent ==
    [][\A outcome \in RemoteOutcomes, duration \in RequestDurations :
          ( /\ ret.kind = "return"
            /\ ~ret.force
            /\ states_cache_time # None
            /\ now - states_cache_time[1] < 60
            /\ GetStates(FALSE, outcome, duration) )
          => /\ ret'.kind = "return"
             /\ ret'.value = ret.value
             /\ ret'.requests = 0]_vars

C8_Witness ==
    /\ ret.kind = "return"
    /\ ~ret.force
    /\ ret.requests = 0
    /\ ret.prev_time # None
    /\ now > ret.prev_time[1]
    /\ remote_states # ret.value

(***************************************************************************)
(* C9: a get_states call with force_refresh, or with no entry, or with     *)
(* now - fetched_at >= 60, issues exactly one remote request; when the     *)
(* request succeeds the call returns the fetched snapshot and the entry    *)
(* becomes that snapshot with the time read at the start of the call.      *)
(***************************************************************************)
C9_CacheFresh ==
    [][\A force_refresh \in ForceRefresh, outcome \in RemoteOutcomes,
          duration \in RequestDurations :
          ( /\ GetStates(force_refresh, outcome, duration)
            /\ \/ force_refresh
               \/ states_cache = None
               \/ states_cache_time = None
               \/ now - states_cache_time[1] >= 60 )
          => /\ ret'.requests = 1
             /\ outcome = "ok" =>
                   /\ ret'.kind = "return"
                   /\ ret'.value = remote_states
                   /\ states_cache' = <<remote_states>>
                   /\ states_cache_time' = <<now>>]_vars

C9_Witness ==
    /\ ret.kind = "return"
    /\ ret.requests = 1
    /\ ~ret.force
    /\ ret.prev_time # None
    /\ states_cache_time[1] - ret.prev_time[1] = 60
    /\ states_cache = <<ret.value>>

(***************************************************************************)
(* C10: a get_states call whose remote request fails raises the error and  *)
(* leaves _states_cache and _states_cache_time as they were.               *)
(***************************************************************************)
C10_CacheKeptOnFailure ==
    [][\A force_refresh \in ForceRefresh, outcome \in RemoteOutcomes,
          duration \in RequestDurations :
          ( /\ GetStates(force_refresh, outcome, duration)
            /\ ret'.requests = 1
            /\ outcome # "ok" )
          => /\ ret'.kind = "raise"
             /\ ret'.exc.error = "HomeAssistantAPIError"
             /\ states_cache' = states_cache
             /\ states_cache_time' = states_cache_time]_vars

C10_Witness ==
    /\ ret.kind = "raise"
    /\ ret.requests = 1
    /\ states_cache # None
    /\ states_cache_time # None
    /\ states_cache_time = ret.prev_time
    /\ now - states_cache_time[1] >= 60


(***************************************************************************)
(* C11: in every state a reader can observe, the cached snapshot and the   *)
(* fetch time were written by the same refresh (or both by __init__).      *)
(***************************************************************************)
C11_EntryAtomic == entry_by.cache = entry_by.time


\* the last operation was is_entity_allowed
Checked == call.op = "is_entity_allowed"

\* entity_id matches at least one pattern of the list
MatchesSome(entity_id, patterns) ==
    \E i \in 1..Len(patterns) : FnMatch(entity_id, patterns[i])

(***************************************************************************)
(* C12: when the whitelist is non-empty, is_entity_allowed answers true    *)
(* exactly when the entity id matches at least one whitelist pattern, and  *)
(* the answer is the same whatever the blacklist holds: every blacklist is *)
(* tried, and adding a pattern to it leaves the answer as it is.           *)
(***************************************************************************)
C12_WhitelistAuthoritative ==
    (Checked /\ policy.whitelist # <<>>) =>
        /\ call.result = MatchesSome(call.entity_id, policy.whitelist)
        /\ \A pattern \in Patterns :
              is_entity_allowed(call.entity_id, policy.whitelist,
                                Append(policy.blacklist, pattern)) = call.result

\* an entity the whitelist admits although a blacklist pattern matches it
C12_Witness ==
    /\ Checked
    /\ policy.whitelist # <<>>
    /\ MatchesSome(call.entity_id, policy.whitelist)
    /\ MatchesSome(call.entity_id, policy.blacklist)
    /\ call.result = TRUE

(***************************************************************************)
(* C13: when the whitelist is empty, is_entity_allowed answers false       *)
(* exactly when the entity id matches at least one blacklist pattern; when *)
(* both lists are empty it answers true for every entity id.               *)
(***************************************************************************)
C13_BlacklistOnly ==
    (Checked /\ policy.whitelist = <<>>) =>
        /\ call.result = ~MatchesSome(call.entity_id, policy.blacklist)
        /\ policy.blacklist = <<>> => call.result = TRUE

\* an entity denied by the blacklist alone
C13_Witness ==
    /\ Checked
    /\ policy.whitelist = <<>>
    /\ MatchesSome(call.entity_id, policy.blacklist)
    /\ call.result = FALSE


\* the last operation was get_history
Fetched == call.op = "get_history"

\* the empty list []
EmptyList == JList(<<>>)

(***************************************************************************)
(* C16: get_history issues exactly one remote request, whatever its        *)
(* outcome, and a failed request (401, 404, connection refused, timeout,   *)
(* another error status, an unparsable body) ends the call with the error  *)
(* HomeAssistantAPIError, never with a returned list.                      *)
(***************************************************************************)
C16_NoRetry ==
    Fetched =>
        /\ Len(call.requests) = 1
        /\ call.outcome # "ok" =>
              /\ call.result.kind = "raise"
              /\ call.result.exc.error = "HomeAssistantAPIError"
              /\ call.outcome = "401" => call.result.exc.status_code = 401
              /\ call.outcome = "404" => call.result.exc.status_code = 404

\* a request that timed out and was not repeated
C16_Witness ==
    /\ Fetched
    /\ call.outcome = "timeout"
    /\ Len(call.requests) = 1
    /\ call.result.kind = "raise"

\* a list whose elements are all lists
IsListOfLists(v) ==
    /\ v[1] = "list"
    /\ \A i \in 1..Len(v[2]) : v[2][i][1] = "list"

(***************************************************************************)
(* C17: when the request succeeds, get_history returns the first list of a *)
(* non-empty list of lists, and returns the empty list without raising for *)
(* every other parsed body (null, [], a mapping, any other value).         *)
(***************************************************************************)
C17_ResultShape ==
    (Fetched /\ call.outcome = "ok") =>
        /\ call.result.kind = "return"
        /\ call.result.value =
              IF IsListOfLists(call.body) /\ call.body[2] # <<>>
              THEN call.body[2][1]
              ELSE EmptyList


\* the last operation was get_available_history_range
Ranged == call.op = "get_available_history_range"

\* the i-th probe finds nothing: its request succeeds and get_history
\* returns an empty history
EmptyProbe(i) ==
    LET h == get_history(call.requests[1], call.responses[i].outcome,
                         call.responses[i].body)
    IN h.result.kind = "return" /\ ~Truthy(h.result.value)

(***************************************************************************)
(* C15: get_available_history_range probes the one-hour windows that       *)
(* start 30, 14, 7, 3 and 1 days before now, in that order; it issues a    *)
(* probe only when every probe before it found nothing; it returns         *)
(* (None, now) exactly when all five probes found nothing; it issues at    *)
(* most five requests and always ends, by returning or by raising.         *)
(***************************************************************************)
C15_ProbeOrder ==
    Ranged =>
        LET days == <<30, 14, 7, 3, 1>>
            n == Len(call.requests)
        IN
        /\ n \in 1..5
        /\ \A i \in 1..n :
              /\ call.requests[i].filter_entity_id = call.entity_id
              /\ call.requests[i].start = call.now - days[i] * 86400
              /\ call.requests[i].end_time = call.requests[i].start + 3600
        /\ \A i \in 1..(n - 1) : EmptyProbe(i)
        /\ (call.result.kind = "return" /\ call.result.value = <<None, call.now>>)
              <=> (\A i \in 1..5 : EmptyProbe(i))
        /\ call.result.kind \in {"return", "raise"}

\* the third probe is the first to find an entry: three requests, and the
\* entry's timestamp comes back with now
C15_Witness ==
    /\ Ranged
    /\ Len(call.requests) = 3
    /\ EmptyProbe(1) /\ EmptyProbe(2) /\ ~EmptyProbe(3)
    /\ call.result.kind = "return"
    /\ call.result.value[1] # None
    /\ call.now > 0


\* the last operation was a request to a per-entity endpoint
Requested == call.op = "endpoint"

\* the policy denies the entity
Denied(entity_id) ==
    ~is_entity_allowed(entity_id, policy.whitelist, policy.blacklist)

(***************************************************************************)
(* C14: on each of the six per-entity endpoints a request for an entity    *)
(* the policy denies issues no remote request and has no parameter read or *)
(* parsed; the view function answers it 403 (a client that is not logged   *)
(* in is sent to the login page before the view function runs).  Every     *)
(* remote request an endpoint issues is for an entity the policy allows.   *)
(***************************************************************************)
C14_AccessCheckFirst ==
    Requested =>
        /\ Denied(call.entity_id) =>
              /\ call.requests = <<>>
              /\ \A i \in 1..Len(call.steps) :
                    call.steps[i] \notin {"args", "parse", "remote"}
              /\ call.status = IF call.authenticated THEN 403 ELSE 302
        /\ \A i \in 1..Len(call.requests) :
              ~Denied(call.requests[i].filter_entity_id)

\* a logged-in request for the attribute export of a denied entity, with
\* every parameter sent, is answered 403
C14_Witness ==
    /\ Requested
    /\ call.endpoint = "export_attribute_history"
    /\ call.authenticated
    /\ Denied(call.entity_id)
    /\ call.args.key # "" /\ call.args.start # ""
    /\ call.status = 403


\* the last operation was a transformation that returned a series
Transformed(mode) ==
    /\ call.op = "transform"
    /\ call.mode = mode
    /\ call.result.kind = "return"

\* the entry carries the field with a value that is a non-empty string
HasStamp(entry, field) ==
    /\ field \in DOMAIN entry[2]
    /\ entry[2][field][1] = "str"
    /\ entry[2][field][2] # ""

\* the entry has a last_changed or a last_updated
Survives(entry) == HasStamp(entry, "last_changed") \/ HasStamp(entry, "last_updated")

\* the entries of the history that have a timestamp, in input order
Survivors(history) == SelectSeq(history, Survives)

\* the series of the last transformation
Series == call.result.value

(***************************************************************************)
(* C18: in generic mode a surviving entry whose state is "unknown" or      *)
(* "unavailable" has null at its index of states.                          *)
(***************************************************************************)
C18_SentinelGap ==
    Transformed("generic") =>
        LET entries == Survivors(call.history) IN
        \A i \in 1..Len(entries) :
            ("state" \in DOMAIN entries[i][2] /\ entries[i][2].state \in Sentinels)
                => Series.states[i] = JNull

\* the arrays that run parallel to timestamps
ParallelArrays ==
    IF call.mode = "climate"
    THEN {Series.current_temperature, Series.temperature,
          Series.ext_current_temperature, Series.is_heating}
    ELSE IF call.mode = "generic" THEN {Series.states}
    ELSE {Series.values}

\* attributes of the entry is a mapping that holds the key
HasAttribute(entry, key) ==
    /\ "attributes" \in DOMAIN entry[2]
    /\ entry[2].attributes[1] = "dict"
    /\ key \in DOMAIN entry[2].attributes[2]

\* attributes.specific_states of the entry is a mapping that holds the key
HasSpecificState(entry, key) ==
    /\ HasAttribute(entry, "specific_states")
    /\ entry[2].attributes[2].specific_states[1] = "dict"
    /\ key \in DOMAIN entry[2].attributes[2].specific_states[2]

\* the attributes of the entry hold a value under the key path
HasPath(entry, key) ==
    IF key = "specific_states.ext_current_temperature"
    THEN HasSpecificState(entry, "ext_current_temperature")
    ELSE HasAttribute(entry, key)

\* every array is as long as timestamps, and a surviving entry without
\* the field an array is read from has null at its index of that array
\* (is_heating, read from hvac_action, left aside)
GapsPreserved ==
    LET entries == Survivors(call.history) IN
    /\ \A array \in ParallelArrays : Len(array) = Len(Series.timestamps)
    /\ Len(Series.timestamps) = Len(entries)
    /\ Transformed("climate") =>
          \A i \in 1..Len(entries) :
              /\ ~HasAttribute(entries[i], "current_temperature")
                    => Series.current_temperature[i] = JNull
              /\ ~HasAttribute(entries[i], "temperature")
                    => Series.temperature[i] = JNull
              /\ (/\ ~HasAttribute(entries[i], "ext_current_temperature")
                  /\ ~HasSpecificState(entries[i], "ext_current_temperature"))
                    => Series.ext_current_temperature[i] = JNull
    /\ Transformed("generic") =>
          \A i \in 1..Len(entries) :
              "state" \notin DOMAIN entries[i][2] => Series.states[i] = JNull
    /\ Transformed("attribute") =>
          \A i \in 1..Len(entries) :
              ~HasPath(entries[i], Series.key) => Series.values[i] = JNull

StampOf(entry) ==
    IF HasStamp(entry, "last_changed") THEN entry[2].last_changed
    ELSE entry[2].last_updated

(***************************************************************************)
(* C20: in climate, generic and attribute-path mode the output timestamps  *)
(* are, in input order, the last_changed of each entry that has one, else  *)
(* its last_updated; an entry with neither adds no element to any array.   *)
(***************************************************************************)
C20_SurvivingEntries ==
    (call.op = "transform" /\ call.result.kind = "return") =>
        LET entries == Survivors(call.history) IN
        /\ Series.timestamps = [i \in 1..Len(entries) |-> StampOf(entries[i])]
        /\ \A array \in ParallelArrays : Len(array) = Len(entries)

\* an entry with both timestamps, an entry with neither and an entry with
\* last_updated alone give two timestamps
C20_Witness ==
    /\ call.op = "transform" /\ call.result.kind = "return"
    /\ Len(call.history) = 3
    /\ HasStamp(call.history[1], "last_changed")
    /\ HasStamp(call.history[1], "last_updated")
    /\ ~Survives(call.history[2])
    /\ ~HasStamp(call.history[3], "last_changed")
    /\ HasStamp(call.history[3], "last_updated")
    /\ Series.timestamps = <<call.history[1][2].last_changed,
                             call.history[3][2].last_updated>>


\* the attributes of the entry when they are a mapping, else no mapping
AttributesOf(entry) ==
    IF "attributes" \in DOMAIN entry[2] /\ entry[2].attributes[1] = "dict"
    THEN entry[2].attributes[2]
    ELSE EmptyDict

\* what is found under the key path in the entry's attributes: the value
\* under a one-part key, the value under the second part inside the
\* mapping under the first part of a two-part key, null where a part is
\* missing or the value met on the way is not a mapping
Found(entry, key) ==
    LET parts == KeyParts(key)
        attrs == AttributesOf(entry)
    IN
    IF parts[1] \notin DOMAIN attrs THEN JNull
    ELSE IF Len(parts) = 1 THEN attrs[parts[1]]
    ELSE IF attrs[parts[1]][1] # "dict" THEN JNull
    ELSE IF parts[2] \notin DOMAIN attrs[parts[1]][2] THEN JNull
    ELSE attrs[parts[1]][2][parts[2]]

(***************************************************************************)
(* C21: the attribute-path transformation always returns, and for every    *)
(* surviving entry i values[i] is the value found by walking the entry's   *)
(* attributes with the parts of the key, null when the walk meets a value  *)
(* that is not a mapping (a missing or null attributes field included).    *)
(***************************************************************************)
C21_PathRoundTrip ==
    (call.op = "transform" /\ call.mode = "attribute") =>
        /\ call.result.kind = "return"
        /\ LET entries == Survivors(call.history) IN
           /\ Len(Series.values) = Len(entries)
           /\ \A i \in 1..Len(entries) :
                 Series.values[i] = Found(entries[i], Series.key)

\* a two-part key walked through a mapping, through a string and through
\* null attributes: the nested value, null and null
C21_Witness ==
    /\ Transformed("attribute")
    /\ Series.key = "specific_states.ext_current_temperature"
    /\ Len(call.history) = 3
    /\ Len(Series.values) = 3
    /\ Series.values[1] = JNum(50)
    /\ HasAttribute(call.history[2], "specific_states")
    /\ ~HasSpecificState(call.history[2], "ext_current_temperature")
    /\ Series.values[2] = JNull
    /\ "attributes" \in DOMAIN call.history[3][2]
    /\ call.history[3][2].attributes = JNull
    /\ Series.values[3] = JNull

\* the surviving entries whose state is neither null nor a sentinel
Typed(entries) ==
    {i \in 1..Len(entries) :
        /\ "state" \in DOMAIN entries[i][2]
        /\ entries[i][2].state # JNull
        /\ entries[i][2].state \notin Sentinels}

\* the surviving entries with a non-null value under the key path
Valued(entries, key) == {i \in 1..Len(entries) : Found(entries[i], key) # JNull}

\* the least index of a non-empty set of indices
First(indices) == CHOOSE i \in indices : \A j \in indices : i <= j

(***************************************************************************)
(* C22: a generic series is numeric exactly when the state of the first    *)
(* surviving entry whose state is neither null nor a sentinel parses as a  *)
(* number, whatever the entries after it hold; an attribute-path series is *)
(* numeric exactly when the first non-null value is a number.              *)
(***************************************************************************)
C22_ClassifiedOnce ==
    /\ Transformed("generic") =>
          LET entries == Survivors(call.history) IN
          Typed(entries) # {} =>
              (Series.type = "numeric") =
                  (ToFloat(entries[First(Typed(entries))][2].state).kind = "return")
    /\ Transformed("attribute") =>
          LET entries == Survivors(call.history) IN
          Valued(entries, Series.key) # {} =>
              (Series.type = "numeric") =
                  (Found(entries[First(Valued(entries, Series.key))],
                         Series.key)[1] = "num")

\* a numeric first state followed by a text state: still numeric
C22_Witness ==
    /\ Transformed("generic")
    /\ Len(call.history) = 3
    /\ Typed(Survivors(call.history)) = {2, 3}
    /\ ToFloat(call.history[2][2].state).kind = "return"
    /\ ToFloat(call.history[3][2].state).kind = "raise"
    /\ Series.type = "numeric"


\* the request reached the view function's body: the client is logged in
\* and the policy allows the entity
Admitted == Requested /\ call.status \notin {302, 403}

\* a date parameter that was sent and that date_parser.parse() rejects
Unparsable(value) == value # "" /\ ParseDate(JStr(value)).kind = "raise"

\* the request has an unparsable start, end or timestamp value, or lacks
\* a parameter its endpoint requires
Malformed(endpoint, args) ==
    \/ endpoint = "get_entity_details"
       /\ (args.timestamp = "" \/ Unparsable(args.timestamp))
    \/ endpoint \in KeyedEndpoints /\ args.key = ""
    \/ endpoint \notin {"get_entity_details", "get_history_range"}
       /\ (Unparsable(args.start) \/ Unparsable(args.end))

(***************************************************************************)
(* C23: a request with an unparsable start, end or timestamp value, or     *)
(* without a parameter its endpoint requires, is answered with a           *)
(* client-input error status and issues no remote request.                 *)
(***************************************************************************)
C23_MalformedRejected ==
    (Admitted /\ Malformed(call.endpoint, call.args)) =>
        /\ call.status \in 400..499
        /\ call.requests = <<>>

(***************************************************************************)
(* C26: every remote history query an endpoint issues has start < end.     *)
(***************************************************************************)
C26_WindowValid ==
    Requested =>
        \A i \in 1..Len(call.requests) :
            call.requests[i].start < call.requests[i].end_time


(***************************************************************************)
(* C24: when the worker threads have completed their requests, the counter *)
(* of every address outside the safe set has counted each failed attempt   *)
(* answered since the last success from that address, and an address with  *)
(* 5 such failures is in the ban store.                                    *)
(***************************************************************************)
C24_NoLostIncrement ==
    (\A w \in Workers : threads[w].pc = "idle") =>
        \A ip \in UnsafeAddrs :
            /\ DictGet(login_attempts, ip, 0) >= fail_streak[ip]
            /\ fail_streak[ip] >= MAX_LOGIN_ATTEMPTS => ip \in BanStore


(***************************************************************************)
(* C25: in a generic series of type numeric every element of states is a   *)
(* number or null.                                                         *)
(***************************************************************************)
C25_NumericStates ==
    (Transformed("generic") /\ Series.type = "numeric") =>
        \A i \in 1..Len(Series.states) :
            Series.states[i] = JNull \/ Series.states[i][1] = "num"


\* the first entry of the history the last probe found
FoundEntry ==
    LET n == Len(call.requests) IN
    get_history(call.requests[n], call.responses[n].outcome,
                call.responses[n].body).result.value[2][1]

\* the last probe found a history whose first entry has a timestamp
ProbeFound ==
    /\ Ranged
    /\ LET n == Len(call.requests)
           h == get_history(call.requests[n], call.responses[n].outcome,
                            call.responses[n].body)
       IN /\ h.result.kind = "return"
          /\ Truthy(h.result.value)
          /\ Survives(h.result.value[2][1])

(***************************************************************************)
(* C27: when a probe finds a history whose first entry has a last_changed  *)
(* or a last_updated, the operation returns, and the earliest timestamp it *)
(* returns is that entry's last_changed when it has one, else its          *)
(* last_updated.                                                           *)
(***************************************************************************)
C27_EarliestStamp ==
    ProbeFound =>
        /\ call.result.kind = "return"
        /\ call.result.value[1] = Some(ParseDate(StampOf(FoundEntry)).value)


\* the external temperature of a climate entry: the nested value when it is
\* not null, else the top-level attribute, else null
ExternalTemperature(entry) ==
    LET nested == Found(entry, "specific_states.ext_current_temperature") IN
    IF nested # JNull THEN nested
    ELSE DictGet(AttributesOf(entry), "ext_current_temperature", JNull)

\* the entry's hvac_action is the string "heating"
Heating(entry) ==
    LET hvac_action == Found(entry, "hvac_action") IN
    hvac_action[1] = "str" /\ hvac_action[2] = "heating"

(***************************************************************************)
(* C28: in a climate series, for every surviving entry                     *)
(* ext_current_temperature is the nested specific_states value when that   *)
(* is not null, else the top-level attribute, else null; is_heating is 1   *)
(* when hvac_action is "heating" and 0 otherwise, also when hvac_action is *)
(* absent.                                                                 *)
(***************************************************************************)
C28_ExternalTemperature ==
    Transformed("climate") =>
        LET entries == Survivors(call.history) IN
        /\ Len(Series.ext_current_temperature) = Len(entries)
        /\ Len(Series.is_heating) = Len(entries)
        /\ \A i \in 1..Len(entries) :
              /\ Series.ext_current_temperature[i] = ExternalTemperature(entries[i])
              /\ Series.is_heating[i] =
                     IF Heating(entries[i]) THEN JNum(10) ELSE JNum(0)

\* a nested 0 beside a top-level 3.0 gives 0, a nested null beside a
\* top-level 3.0 gives 3.0, an entry without hvac_action is not heating
C28_Witness ==
    /\ Transformed("climate")
    /\ Len(call.history) = 3
    /\ HasSpecificState(call.history[1], "ext_current_temperature")
    /\ HasAttribute(call.history[1], "ext_current_temperature")
    /\ Series.ext_current_temperature[1] = JNum(0)
    /\ Series.is_heating[1] = JNum(10)
    /\ HasSpecificState(call.history[2], "ext_current_temperature")
    /\ Series.ext_current_temperature[2] = JNum(30)
    /\ ~HasAttribute(call.history[3], "hvac_action")
    /\ Len(Series.is_heating) = 3
    /\ Series.is_heating[3] = JNum(0)

(***************************************************************************)
(* C29: the climate, generic and attribute-path transformations return a   *)
(* series for every history of raw entries, entries whose attributes are   *)
(* null or whose specific_states is not a mapping included.                *)
(***************************************************************************)
C29_NeverRaises == call.op = "transform" => call.result.kind = "return"


\* the last operation was a request to the list endpoint for which
\* get_states returned a snapshot
Listed == call.op = "list_entities" /\ call.fetched = "return"

\* the entity_id of an entity state, "" when it has none
IdOf(state) == IF "entity_id" \in DOMAIN state[2] THEN state[2].entity_id[2] ELSE <<>>

\* the name the entity is listed under: its friendly_name attribute, its
\* entity_id when the attribute is absent
NameOf(state) ==
    IF HasAttribute(state, "friendly_name")
    THEN state[2].attributes[2].friendly_name
    ELSE JStr(IdOf(state))

\* every entity state has a mapping of attributes, or none, and a name
\* that is a string
WellFormed(states) ==
    \A i \in 1..Len(states[2]) :
        /\ "attributes" \in DOMAIN states[2][i][2]
              => states[2][i][2].attributes[1] = "dict"
        /\ NameOf(states[2][i])[1] = "str"

\* the index of the entity in the snapshot
Position(states, entity_id) ==
    CHOOSE i \in 1..Len(states[2]) : IdOf(states[2][i]) = entity_id

C32_CacheTimeMonotonic ==
    [][states_cache_time # None =>
          /\ states_cache_time' # None
          /\ states_cache_time'[1] >= states_cache_time[1]]_vars


(***************************************************************************)
(* C33: in every state of sequentially processed login attempts, with      *)
(* reads and rewrites of ip_bans.yaml that may fail, the attempt counter   *)
(* of an address outside the safe set is at most MAX_LOGIN_ATTEMPTS.       *)
(***************************************************************************)
C33_CounterBound ==
    \A ip \in UnsafeAddrs : DictGet(login_attempts, ip, 0) <= MAX_LOGIN_ATTEMPTS

(***************************************************************************)
(* C34: a login request from an address outside the safe set whose ban is  *)
(* in ip_bans.yaml never has its credentials read, also when reading the   *)
(* file fails.                                                             *)
(***************************************************************************)
C34_BanCheckFailsClosed ==
    [][\A ip \in UnsafeAddrs, method \in Methods, form \in Forms :
            (ip \in BanStore /\ LoginFaulty(ip, method, form))
                => ~resp'.creds_read]_vars

=============================================================================
